---- MODULE Spec2Model ----
(***************************************************************************)
(* A model of the Quantiphyse FSL plugin (fslqp): the FslProcess family    *)
(* of process.py (run / init_cmd / timeout / finished), the output watcher *)
(* FslOutputProgress, the background worker function _run_fsl and the      *)
(* command line construction of FlirtRegMethod (flirt.py).                 *)
(*                                                                         *)
(* Conventions                                                             *)
(*   - a Python str is a sequence of tokens (words or characters);         *)
(*     the empty str is << >>;                                             *)
(*   - a Python dict is a function with a finite DOMAIN of keys;           *)
(*   - an attribute that holds either None or a str is a set with no       *)
(*     element (None) or with one element (the str);                       *)
(*   - a float produced by a division is kept as the exact fraction        *)
(*     [num, den].                                                         *)
(***************************************************************************)
EXTENDS Integers, Sequences, FiniteSets, TLC

\* ------------------------------------------------------------------ bounds
MaxSteps == 2      \* longest expected-step list a subclass registers
MaxQueue == 2      \* most lines waiting on the queue at once
MaxLines == 3      \* most lines one run of the command outputs
MaxIter == 1       \* largest FAST "iter" option
MaxFixed == 1      \* largest FAST "fixed" option
MaxText == 2       \* longest text given to one write() call
MaxWritten == 4    \* most characters written to one FslOutputProgress
MaxWorkerId == 1   \* largest worker_id given to _run_fsl

\* ------------------------------------------------------- python primitives
None == {}
Some(s) == {s}
TheStr(o) == CHOOSE s \in o : TRUE

\* truth value of an attribute that is None or a str: None and "" are falsy
Truthy(o) == o # None /\ TheStr(o) # << >>

EmptyDict == [k \in {} |-> 0]
DictSet(d, k, v) == (k :> v) @@ d
DictDel(d, k) == [x \in (DOMAIN d) \ {k} |-> d[x]]
DictGet(d, k, default) == IF k \in DOMAIN d THEN d[k] ELSE default
DictDelAll(d, ks) == [x \in (DOMAIN d) \ ks |-> d[x]]

IntStr(i) == <<"0", "1", "2", "3", "4", "5", "6", "7", "8", "9", "10">>[i + 1]

VARIABLES
    cls,              \* the class of the process object
    output_data,      \* FslProcess._output_data : result key -> data name
    output_rois,      \* FslProcess._output_rois : result key -> ROI name
    expected_steps,   \* FslProcess._expected_steps : list of markers
    current_step,     \* FslProcess._current_step
    current_data,     \* FslProcess._current_data : None or name
    current_roi,      \* FslProcess._current_roi : None or name
    queue,            \* Process.queue : lines sent by the worker
    status,           \* Process.status
    worker_output,    \* Process.worker_output
    ivm,              \* the calls made on the host's data manager since run()
    bg_args,          \* the [cmd, cmd_args] handed to start_bg
    phase,            \* "idle", "running" or "done"
    run_options,      \* the options of the latest run() call
    run_cleared,      \* what the latest run() call found registered before it
    put_log,          \* this run: the lines that entered the queue
    consumed,         \* this run: the lines timeout() took, and what it did
    emitted,          \* this run: the values given to sig_progress.emit
    fop_queue,        \* FslOutputProgress._queue
    fop_written,      \* the texts given to FslOutputProgress.write, joined
    rf,               \* the latest _run_fsl call: inputs and outcome
    fl                \* the latest reg_3d / moco call: inputs and outcome

procvars == <<cls, output_data, output_rois, expected_steps, current_step,
              current_data, current_roi, queue, status, worker_output, ivm,
              bg_args, phase, run_options, run_cleared, put_log, consumed, emitted>>
fopvars == <<fop_queue, fop_written>>
vars == <<procvars, fopvars, rf, fl>>

\* -------------------------------------------------------------- text model
TANAKA == <<"Tanaka", "Iteration">>

\* re.match(expected, line) for a literal pattern: the pattern must match at
\* the START of the line
ReMatch(expected, line) ==
    /\ Len(expected) <= Len(line)
    /\ SubSeq(line, 1, Len(expected)) = expected

\* the markers a subclass may register as expected steps (None is allowed)
Markers == {Some(TANAKA), Some(<<"Bias">>), None}

\* the lines a command may output
OutputLines == {<<"Tanaka", "Iteration", "1">>, <<"Bias", "field">>,
                <<"x", "Tanaka", "Iteration">>}
\* the one line FAST outputs at each of its main-loop iterations
TanakaLines == {<<"Tanaka", "Iteration", "1">>}

RECURSIVE SeqsUpTo(_, _)
SeqsUpTo(S, n) ==
    IF n = 0 THEN {<< >>}
    ELSE LET shorter == SeqsUpTo(S, n - 1)
         IN shorter \cup {Append(s, x) : s \in {t \in shorter : Len(t) = n - 1}, x \in S}

\* ------------------------------------------------------ FslProcess.timeout
\* float(self._current_step) / (len(self._expected_steps)+1), as a fraction
\* (variant: the division by len(self._expected_steps) alone)
CompleteNoPlusOne(step, nsteps) == [num |-> step, den |-> nsteps]
Complete(step, nsteps) == [num |-> step, den |-> nsteps + 1]

\* the test of one queued line against the expected steps
\* (variant: a line is accepted for the current or any later step)
StepMatchesAnyLater(steps, step, line) ==
    \E i \in (step + 1)..Len(steps) :
        steps[i] # None /\ ReMatch(TheStr(steps[i]), line)
StepMatches(steps, step, line) ==
    /\ step < Len(steps)
    /\ LET expected == steps[step + 1]
       IN expected # None /\ ReMatch(TheStr(expected), line)

\* the while loop of timeout(): takes every line off the queue, in order
RECURSIVE TimeoutLoop(_, _, _, _, _)
TimeoutLoop(q, steps, step, cons, emits) ==
    IF q = << >> THEN [current_step |-> step, consumed |-> cons, emitted |-> emits]
    ELSE LET line == Head(q)
             hit == StepMatches(steps, step, line)
             nstep == IF hit THEN step + 1 ELSE step
         IN TimeoutLoop(Tail(q), steps, nstep,
                Append(cons, [line |-> line, step |-> step, emit |-> hit]),
                IF hit THEN Append(emits, Complete(nstep, Len(steps))) ELSE emits)

\* ----------------------------------------------------- FslProcess.finished
SUCCEEDED == "SUCCEEDED"
Statuses == {"SUCCEEDED", "FAILED", "CANCELLED"}

\* (variant: every result is added as data, under its key when unmapped)
AddDataAlways(cmd_result, odata) ==
    {[name |-> DictGet(odata, key, key), qpdata |-> cmd_result[key]] :
        key \in DOMAIN cmd_result}
AddDataCalls(cmd_result, odata) ==
    {[name |-> odata[key], qpdata |-> cmd_result[key]] :
        key \in (DOMAIN cmd_result) \cap (DOMAIN odata)}
AddRoiCalls(cmd_result, orois) ==
    {[name |-> orois[key], qpdata |-> cmd_result[key]] :
        key \in (DOMAIN cmd_result) \cap (DOMAIN orois)}

\* (variant: the body of finished() without the test of self.status)
FinishedIgnoringStatus(st, m, cmd_result, odata, orois, cdata, croi) ==
    [data |-> m.data \cup AddDataCalls(cmd_result, odata),
     rois |-> m.rois \cup AddRoiCalls(cmd_result, orois),
     current_data |-> IF Truthy(cdata) THEN cdata ELSE m.current_data,
     current_roi |-> IF Truthy(croi) THEN croi ELSE m.current_roi]
Finished(st, m, cmd_result, odata, orois, cdata, croi) ==
    IF st = SUCCEEDED
    THEN [data |-> m.data \cup AddDataCalls(cmd_result, odata),
          rois |-> m.rois \cup AddRoiCalls(cmd_result, orois),
          current_data |-> IF Truthy(cdata) THEN cdata ELSE m.current_data,
          current_roi |-> IF Truthy(croi) THEN croi ELSE m.current_roi]
    ELSE m

\* ---------------------------------------------------------- FslProcess.run
\* the attributes run() resets before it calls init_cmd
\* (variant: the two output mappings are not replaced by empty dicts)
RunResetKeepsOutput(st) ==
    [output_data |-> st.output_data, output_rois |-> st.output_rois,
     expected_steps |-> << >>, current_step |-> 0,
     current_data |-> None, current_roi |-> None]
RunReset(st) ==
    [output_data |-> EmptyDict, output_rois |-> EmptyDict,
     expected_steps |-> << >>, current_step |-> 0,
     current_data |-> None, current_roi |-> None]

LOAD == "_LOAD"

\* FslProcess.init_cmd: command and arguments come from the options
FslInitCmd(st, options) ==
    [st |-> st, cmd |-> options["cmd"],
     cmd_args |-> DictGet(options, "cmd-args", EmptyDict)]

PveKey(classnum) == <<"out_pve_", IntStr(classnum)>>
PveName(name, classnum) == <<name, "_pve_", IntStr(classnum)>>

\* [marker] * n
Repeat(marker, n) == [i \in 1..n |-> marker]

\* (variant: the steps of the iterations before bias-field removal only)
FastStepsIterOnly(options) == Repeat(Some(TANAKA), options["iter"])
FastSteps(options) == Repeat(Some(TANAKA), options["iter"] + options["fixed"])

\* FastProcess.init_cmd
FastInitCmd(st, options) ==
    LET name == options["data"]       \* data.name, data = get_data(options)
        o0 == DictDel(options, "data")
        pve == DictGet(o0, "output-pve", TRUE)
        s1 == IF pve
              THEN [st EXCEPT
                      !.output_data =
                          [k \in {PveKey(c) : c \in 0..(o0["class"] - 1)} |->
                              <<name, "_pve_", k[2]>>] @@ @,
                      !.current_data = Some(PveName(name, 0))]
              ELSE st
        pveseg == DictGet(o0, "output-pveseg", TRUE)
        s2 == IF pveseg
              THEN [s1 EXCEPT
                      !.output_rois = DictSet(@, <<"out_pveseg">>, <<name, "_pveseg">>),
                      !.current_roi = Some(<<name, "_pveseg">>)]
              ELSE s1
        s3 == IF DictGet(o0, "output-rawseg", FALSE)
              THEN [s2 EXCEPT !.output_rois = DictSet(@, <<"out_seg">>, <<name, "_seg">>)]
              ELSE s2
        s4 == IF DictGet(o0, "output-mixeltype", FALSE)
              THEN [s3 EXCEPT
                      !.output_rois = DictSet(@, <<"out_mixeltype">>, <<name, "_mixeltype">>)]
              ELSE s3
        bf == DictGet(o0, "biasfield", FALSE)
        s5 == IF bf
              THEN [s4 EXCEPT !.output_data = DictSet(@, <<"out_bias">>, <<name, "_bias">>)]
              ELSE s4
        bc == DictGet(o0, "biascorr", FALSE)
        s6 == IF bc
              THEN [s5 EXCEPT
                      !.output_data = DictSet(@, <<"out_restore">>, <<name, "_restore">>)]
              ELSE s5
        s7 == [s6 EXCEPT !.expected_steps = FastSteps(o0)]
        o1 == DictDelAll(o0, {"output-pve", "output-pveseg", "output-rawseg",
                              "output-mixeltype", "biasfield", "biascorr",
                              "iter", "fixed"})
        o2 == (IF bf THEN ("b" :> TRUE) ELSE EmptyDict)
              @@ (IF bc THEN ("B" :> TRUE) ELSE EmptyDict) @@ o1
        o3 == ("verbose" :> TRUE) @@ ("imgs" :> name) @@ ("out" :> LOAD) @@ o2
    IN [st |-> s7, cmd |-> "fast", cmd_args |-> o3]

\* BetProcess.init_cmd
BetInitCmd(st, options) ==
    LET name == options["data"]
        seg == "output-brain" \in DOMAIN options
        mask == "output-mask" \in DOMAIN options
        cmd_args == [input |-> name, output |-> LOAD,
                     fracintensity |-> DictGet(options, "thresh", "0.5"),
                     seg |-> seg, mask |-> mask,
                     centre |-> DictGet(options, "centre", None),
                     r |-> DictGet(options, "radius", None)]
        s1 == IF seg
              THEN [st EXCEPT
                      !.output_data = DictSet(@, <<"output">>, options["output-brain"]),
                      !.current_data = Some(options["output-brain"])]
              ELSE st
        s2 == IF mask
              THEN [s1 EXCEPT
                      !.output_rois = DictSet(@, <<"output_mask">>, options["output-mask"]),
                      !.current_roi = Some(options["output-mask"])]
              ELSE s1
    IN [st |-> s2, cmd |-> "bet", cmd_args |-> cmd_args]

\* init_cmd of a subclass that registers the expected output it is given
\* (FslAnatProcess, FslMathsProcess: the hook "this can be updated in
\* init_cmd")
SubclassInitCmd(st, options) ==
    [st |-> [st EXCEPT !.output_data = options.output_data @@ @,
                       !.output_rois = options.output_rois @@ @,
                       !.expected_steps = options.expected_steps,
                       !.current_data = options.current_data,
                       !.current_roi = options.current_roi],
     cmd |-> "fsl_anat", cmd_args |-> EmptyDict]

InitCmd(c, st, options) ==
    CASE c = "Fast" -> FastInitCmd(st, options)
      [] c = "Bet" -> BetInitCmd(st, options)
      [] c = "Fsl" -> FslInitCmd(st, options)
      [] OTHER -> SubclassInitCmd(st, options)

\* ------------------------------------------------- the options run() is given
DataNames == {"T1"}

FastFlags == {"output-pve", "output-pveseg", "output-rawseg",
              "output-mixeltype", "biasfield", "biascorr"}
\* a flag that is given carries the value that is not its default
FastFlagValue(f) == f \notin {"output-pve", "output-pveseg"}
\* the options dicts given: no flag, or one flag
FastFlagChoices == {{}} \cup {{f} : f \in FastFlags}
FastClasses == {2, 3}
FastOptions ==
    {[k \in S |-> FastFlagValue(k)]
        @@ [data |-> d, class |-> c, iter |-> i, fixed |-> f] :
        S \in FastFlagChoices,
        d \in DataNames, c \in FastClasses, i \in 0..MaxIter, f \in 0..MaxFixed}

Optional(key, values) == {EmptyDict} \cup {key :> v : v \in values}
BetOptions ==
    {b @@ m @@ t @@ r @@ [data |-> d] :
        b \in Optional("output-brain", {<<"T1", "_brain">>, << >>}),
        m \in Optional("output-mask", {<<"T1", "_brain_mask">>}),
        t \in Optional("thresh", {"0.3"}),
        r \in Optional("radius", {200}),
        d \in DataNames}

FslOptions ==
    {a @@ [cmd |-> c] :
        a \in Optional("cmd-args", {"input" :> "T1"}), c \in {"fslmaths", "bet"}}

SubclassOutputs ==
    {[output_data |-> (<<"output">> :> <<"brain">>) @@ (<<"output_mask">> :> <<"m">>),
      output_rois |-> (<<"output">> :> <<"roi">>),
      current_data |-> Some(<<"brain">>), current_roi |-> None],
     [output_data |-> EmptyDict,
      output_rois |-> (<<"output_mask">> :> <<"mask">>),
      current_data |-> Some(<< >>), current_roi |-> Some(<<"mask">>)]}
SubclassOptions ==
    {[output_data |-> o.output_data, output_rois |-> o.output_rois,
      current_data |-> o.current_data, current_roi |-> o.current_roi,
      expected_steps |-> steps] :
        o \in SubclassOutputs, steps \in SeqsUpTo(Markers, MaxSteps)}

OptionsOf(c) ==
    CASE c = "Fast" -> FastOptions
      [] c = "Bet" -> BetOptions
      [] c = "Fsl" -> FslOptions
      [] OTHER -> SubclassOptions

\* the results a worker may hand back: each value is the QpData named after
\* its key
ResultKeysOf(c) ==
    CASE c = "Fast" -> {PveKey(0), <<"out_bias">>}
      [] c = "Bet" -> {<<"output">>, <<"output_mask">>}
      [] c = "Fsl" -> {<<"out">>}
      [] OTHER -> {<<"output">>, <<"output_mask">>, <<"stray">>}
ResultsOf(c) == {[k \in S |-> k] : S \in SUBSET ResultKeysOf(c)}
FullResultOf(c) == [k \in ResultKeysOf(c) |-> k]

NoCalls == [data |-> {}, rois |-> {}, current_data |-> None, current_roi |-> None]

\* ------------------------------------------------------------------ actions
Attrs ==
    [output_data |-> output_data, output_rois |-> output_rois,
     expected_steps |-> expected_steps, current_step |-> current_step,
     current_data |-> current_data, current_roi |-> current_roi]

\* FslProcess.run(options), start_bg included
Run(options) ==
    \E r \in {InitCmd(cls, RunReset(Attrs), options)} :
       /\ output_data' = r.st.output_data
       /\ output_rois' = r.st.output_rois
       /\ expected_steps' = r.st.expected_steps
       /\ current_step' = r.st.current_step
       /\ current_data' = r.st.current_data
       /\ current_roi' = r.st.current_roi
       /\ bg_args' = <<r.cmd, r.cmd_args>>
       /\ status' = "RUNNING"
       /\ worker_output' = << >>
       /\ phase' = "running"
       /\ run_options' = options
       /\ run_cleared' =
              [output |-> \E k \in (DOMAIN output_data) \cup (DOMAIN output_rois) :
                              k \notin (DOMAIN r.st.output_data) \cup (DOMAIN r.st.output_rois),
               step |-> current_step > 0]
       /\ ivm' = NoCalls
       /\ put_log' = queue
       /\ consumed' = << >>
       /\ emitted' = << >>
       /\ UNCHANGED <<cls, queue, fopvars, rf, fl>>

\* the worker's output watcher puts a line on the queue
Put(line) ==
    /\ phase = "running"
    /\ Len(queue) < MaxQueue
    /\ Len(put_log) < MaxLines
    /\ queue' = Append(queue, line)
    /\ put_log' = Append(put_log, line)
    /\ UNCHANGED <<cls, output_data, output_rois, expected_steps, current_step,
                   current_data, current_roi, status, worker_output, ivm, bg_args,
                   phase, run_options, run_cleared, consumed, emitted, fopvars,
                   rf, fl>>

\* FslProcess.timeout()
Timeout ==
    /\ queue # << >>
    /\ LET r == TimeoutLoop(queue, expected_steps, current_step, consumed, emitted)
       IN /\ current_step' = r.current_step
          /\ consumed' = r.consumed
          /\ emitted' = r.emitted
    /\ queue' = << >>
    /\ UNCHANGED <<cls, output_data, output_rois, expected_steps,
                   current_data, current_roi, status, worker_output, ivm, bg_args,
                   phase, run_options, run_cleared, put_log, fopvars, rf, fl>>

\* the worker ends with status st and FslProcess.finished() is called
Finish(st, cmd_result) ==
    /\ phase = "running"
    /\ status' = st
    /\ worker_output' = IF st = SUCCEEDED THEN <<cmd_result>> ELSE << >>
    /\ ivm' = Finished(st, ivm, cmd_result, output_data, output_rois,
                       current_data, current_roi)
    /\ phase' = "done"
    /\ UNCHANGED <<cls, output_data, output_rois, expected_steps, current_step,
                   current_data, current_roi, queue, bg_args, run_options,
                   run_cleared, put_log, consumed, emitted, fopvars, rf, fl>>

OtherIdle ==
    /\ fop_queue = << >>
    /\ fop_written = << >>
    /\ rf = [pc |-> "idle"]
    /\ fl = [pc |-> "idle"]

ProcInit ==
    /\ output_data = EmptyDict
    /\ output_rois = EmptyDict
    /\ expected_steps = << >>
    /\ current_step = 0
    /\ current_data = None
    /\ current_roi = None
    /\ queue = << >>
    /\ status = "NOTSTARTED"
    /\ worker_output = << >>
    /\ ivm = NoCalls
    /\ bg_args = << >>
    /\ phase = "idle"
    /\ run_options = EmptyDict
    /\ run_cleared = [output |-> FALSE, step |-> FALSE]
    /\ put_log = << >>
    /\ consumed = << >>
    /\ emitted = << >>

\* one run of a process whose subclass registers its expected output
Init == cls = "Subclass" /\ ProcInit /\ OtherIdle
\* one run of a FastProcess
InitFast == cls = "Fast" /\ ProcInit /\ OtherIdle
\* any sequence of run() calls on a process of one of the classes of process.py
InitRun == cls \in {"Fsl", "Fast", "Bet"} /\ ProcInit /\ OtherIdle

Next ==
    \/ \E options \in OptionsOf(cls) : phase = "idle" /\ Run(options)
    \/ \E line \in OutputLines : Put(line)
    \/ Timeout
    \/ \E st \in Statuses, cmd_result \in ResultsOf(cls) : Finish(st, cmd_result)

NextRun ==
    \/ \E options \in OptionsOf(cls) : Run(options)
    \/ \E line \in TanakaLines : Put(line)
    \/ Timeout
    \/ \E st \in Statuses : Finish(st, FullResultOf(cls))

Spec == Init /\ [][Next]_vars
SpecFast == InitFast /\ [][Next]_vars
SpecRun == InitRun /\ [][NextRun]_vars

\* ------------------------------------------------------- FslOutputProgress
\* characters: two letters and the line boundaries "\n" and "\r"
NL == "\\n"
CR == "\\r"
Chars == {"a", "b", NL, CR}

\* str.splitlines(): a line ends at "\n", "\r" or "\r\n"; the boundaries are
\* dropped and no empty last line is made of a text that ends at a boundary
RECURSIVE SplitFrom(_, _, _, _)
SplitFrom(text, i, cur, acc) ==
    IF i > Len(text) THEN (IF cur # << >> THEN Append(acc, cur) ELSE acc)
    ELSE IF text[i] = NL THEN SplitFrom(text, i + 1, << >>, Append(acc, cur))
    ELSE IF text[i] = CR
         THEN SplitFrom(text,
                        IF i < Len(text) /\ text[i + 1] = NL THEN i + 2 ELSE i + 1,
                        << >>, Append(acc, cur))
    ELSE SplitFrom(text, i + 1, Append(cur, text[i]), acc)
SplitLines(text) == SplitFrom(text, 1, << >>, << >>)

Texts == SeqsUpTo(Chars, MaxText)

\* FslOutputProgress.write(text)
Write(text) ==
    /\ Len(fop_written) + Len(text) <= MaxWritten
    /\ fop_queue' = fop_queue \o SplitLines(text)
    /\ fop_written' = fop_written \o text
    /\ UNCHANGED <<procvars, rf, fl>>

\* FslOutputProgress.flush()
Flush ==
    /\ UNCHANGED <<fop_queue, fop_written>>
    /\ UNCHANGED <<procvars, rf, fl>>

InitWrite == cls = "Fsl" /\ ProcInit /\ OtherIdle
NextWrite ==
    \/ \E text \in Texts : Write(text)
    \/ Flush
SpecWrite == InitWrite /\ [][NextWrite]_vars

\* ----------------------------------------------------------------- _run_fsl
\* a Python value is [t |-> its type, v |-> what tells it from the others of
\* that type]
QpData(name) == [t |-> "QpData", v |-> name]
Image(name) == [t |-> "Image", v |-> name]
Str(x) == [t |-> "str", v |-> x]
FSL_LOAD == [t |-> "fsl.LOAD", v |-> "LOAD"]

\* the wrapper functions of fsl.wrappers
Wrappers == {"fast", "bet"}
CmdNames == {"fast", "bet", "nosuchcmd"}

\* a QpData whose raw() fails cannot be converted
UNREADABLE == "unreadable"

\* qpdata_to_fslimage
qpdata_to_fslimage(qpd) == Image(qpd.v)

\* fslimage_to_qpdata: if not name: name = img.name
fslimage_to_qpdata(img, name) == QpData(IF name = "" THEN img.v ELSE name)

\* the conversion of one argument (the body of the for loop over keys)
\* (variant: without the elif branch for _LOAD)
ConvertArgKeepsLoad(val) ==
    IF val.t = "QpData" THEN qpdata_to_fslimage(val) ELSE val
ConvertArg(val) ==
    IF val.t = "QpData" THEN qpdata_to_fslimage(val)
    ELSE IF val = Str(LOAD) THEN FSL_LOAD
    ELSE val

\* the outcome of the try block for a failure that is an Exception
\* (variant: the exception leaves _run_fsl)
CaughtPropagates(worker_id, exc) == [kind |-> "raise", exc |-> exc]
Caught(worker_id, exc) == [kind |-> "return", value |-> <<worker_id, FALSE, exc>>]

\* _run_fsl(worker_id, queue, cmd, cmd_args); cmd_outcome is what the wrapper
\* does when it is called: [raises |-> an exception or "", result |-> a dict]
run_fsl(worker_id, cmd, cmd_args, cmd_outcome) ==
    IF cmd \notin Wrappers
    THEN [called |-> FALSE, passed |-> EmptyDict,
          outcome |-> Caught(worker_id, "AttributeError")]
    ELSE IF \E key \in DOMAIN cmd_args : cmd_args[key] = QpData(UNREADABLE)
    THEN [called |-> FALSE, passed |-> EmptyDict,
          outcome |-> Caught(worker_id, "IOError")]
    ELSE LET passed == [key \in DOMAIN cmd_args |-> ConvertArg(cmd_args[key])]
         IN IF cmd_outcome.raises # ""
            THEN [called |-> TRUE, passed |-> passed,
                  outcome |-> Caught(worker_id, cmd_outcome.raises)]
            ELSE LET cmd_result == cmd_outcome.result
                     ret == [key \in {k \in DOMAIN cmd_result : cmd_result[k].t = "Image"}
                                |-> fslimage_to_qpdata(cmd_result[key], key)]
                 IN [called |-> TRUE, passed |-> passed,
                     outcome |-> [kind |-> "return", value |-> <<worker_id, TRUE, ret>>]]

ArgKeys == {"input", "output", "fracintensity"}
ArgValues == {QpData("T1"), QpData(UNREADABLE), Str(LOAD), Str("0.5"),
              [t |-> "bool", v |-> "True"]}
CmdArgs == UNION {[S -> ArgValues] : S \in SUBSET ArgKeys}

WrapperResultKeys == {"output", "output_mask"}
WrapperResultValues == {Image("tmp_a1b2"), Str("stdout")}
CmdOutcomes ==
    {[raises |-> e, result |-> EmptyDict] : e \in {"RuntimeError"}}
    \cup {[raises |-> "", result |-> r] :
            r \in UNION {[S -> WrapperResultValues] : S \in SUBSET WrapperResultKeys}}

\* a call of _run_fsl by the worker pool
RunFsl(worker_id, cmd, cmd_args, cmd_outcome) ==
    /\ rf.pc = "idle"
    /\ rf' = [pc |-> "returned", worker_id |-> worker_id, cmd |-> cmd,
              cmd_args |-> cmd_args, cmd_outcome |-> cmd_outcome]
             @@ run_fsl(worker_id, cmd, cmd_args, cmd_outcome)
    /\ UNCHANGED <<procvars, fopvars, fl>>

InitRunFsl == cls = "Fsl" /\ ProcInit /\ OtherIdle
NextRunFsl ==
    \E worker_id \in 0..MaxWorkerId, cmd \in CmdNames, cmd_args \in CmdArgs,
       cmd_outcome \in CmdOutcomes : RunFsl(worker_id, cmd, cmd_args, cmd_outcome)
SpecRunFsl == InitRunFsl /\ [][NextRunFsl]_vars

\* ----------------------------------------------------------- FlirtRegMethod
\* the interpreters the plugin runs on (it imports six and __future__)
PythonMajors == {2, 3}

\* an int is kept as its decimal digits
PyInt(n) == [t |-> "int", v |-> IntStr(n)]
\* `if value:` : the int 0 and the empty str are falsy
PyTruthy(val) == IF val.t = "int" THEN val.v # IntStr(0) ELSE val.v # ""
\* "%s" % value, "%i" % value
PyFormat(val) == val.v

\* the body of `for key in options.keys():`, for one key
OptionFlag(key, value) ==
    IF PyTruthy(value) THEN <<"-", key, " ", PyFormat(value), " ">>
    ELSE <<"-", key, " ">>

\* Python 2: options.keys() is a list made before the loop, so every key is
\* popped in turn
RECURSIVE PopAll(_, _, _)
PopAll(order, options, cmdline) ==
    IF order = << >> THEN [exc |-> "", cmdline |-> cmdline, options |-> options]
    ELSE LET key == Head(order)
         IN PopAll(Tail(order), DictDel(options, key),
                   cmdline \o OptionFlag(key, options[key]))

\* Python 3: options.keys() is a view of the dict; the pop of the first
\* iteration changes the size of the dict and the iterator raises
\* "RuntimeError: dictionary changed size during iteration" when it is asked
\* for the next key
PopWhileIterating(order, options, cmdline) ==
    IF order = << >> THEN [exc |-> "", cmdline |-> cmdline, options |-> options]
    ELSE LET key == Head(order)
         IN [exc |-> "RuntimeError",
             cmdline |-> cmdline \o OptionFlag(key, options[key]),
             options |-> DictDel(options, key)]

OptionsLoop(py, order, options) ==
    IF py = 2 THEN PopAll(order, options, << >>)
    ELSE PopWhileIterating(order, options, << >>)

REG_TAIL == "-in reg -ref ref -out flirt_out"
MOCO_TAIL == "-in moco_data -out mcflirt_out"

\* FlirtRegMethod.reg_3d; run_ok: whether _run_cmd succeeds
reg_3d(py, order, options, run_ok) ==
    LET loop == OptionsLoop(py, order, options)
    IN IF loop.exc # ""
       THEN [exc |-> loop.exc, built |-> FALSE, cmdline |-> loop.cmdline,
             options_after |-> loop.options]
       ELSE [exc |-> IF run_ok THEN "" ELSE "QpException", built |-> TRUE,
             cmdline |-> Append(loop.cmdline, REG_TAIL),
             options_after |-> loop.options]

\* FlirtRegMethod.moco; ref is a volume index (an int) or reference data
moco(py, order, options, run_ok, ndim, ref) ==
    IF ndim # 4
    THEN [exc |-> "QpException", built |-> FALSE, cmdline |-> << >>,
          options_after |-> options]
    ELSE LET loop == OptionsLoop(py, order, options)
         IN IF loop.exc # ""
            THEN [exc |-> loop.exc, built |-> FALSE, cmdline |-> loop.cmdline,
                  options_after |-> loop.options]
            ELSE [exc |-> IF run_ok THEN "" ELSE "QpException", built |-> TRUE,
                  cmdline |-> Append(loop.cmdline, MOCO_TAIL)
                                \o (IF ref.t = "int"
                                    THEN <<" -refvol ", PyFormat(ref)>>
                                    ELSE <<" -reffile ref_data">>),
                  options_after |-> loop.options]

FlirtKeys == {"cost", "bins", "dof"}
FlirtValues == {Str("corratio"), Str(""), PyInt(6), PyInt(0)}
FlirtOptions == UNION {[S -> FlirtValues] : S \in SUBSET FlirtKeys}

\* the orders in which a dict may hand out its keys
KeyOrders(d) ==
    {order \in SeqsUpTo(DOMAIN d, Cardinality(DOMAIN d)) :
        /\ Len(order) = Cardinality(DOMAIN d)
        /\ \A i, j \in 1..Len(order) : i # j => order[i] # order[j]}

\* a call of reg_3d by the registration process
Reg3d(py, order, options, run_ok) ==
    /\ fl.pc = "idle"
    /\ fl' = [pc |-> "done", fn |-> "reg_3d", py |-> py, options |-> options,
              ndim |-> 3, tail |-> REG_TAIL]
             @@ reg_3d(py, order, options, run_ok)
    /\ UNCHANGED <<procvars, fopvars, rf>>

\* a call of moco by the registration process
Moco(py, order, options, run_ok, ndim, ref) ==
    /\ fl.pc = "idle"
    /\ fl' = [pc |-> "done", fn |-> "moco", py |-> py, options |-> options,
              ndim |-> ndim, tail |-> MOCO_TAIL]
             @@ moco(py, order, options, run_ok, ndim, ref)
    /\ UNCHANGED <<procvars, fopvars, rf>>

InitFlirt == cls = "Fsl" /\ ProcInit /\ OtherIdle
NextFlirt ==
    \/ \E py \in PythonMajors, options \in FlirtOptions, run_ok \in BOOLEAN :
          \E order \in KeyOrders(options) : Reg3d(py, order, options, run_ok)
    \/ \E py \in PythonMajors, options \in FlirtOptions, run_ok \in BOOLEAN,
          ndim \in {3, 4}, ref \in {PyInt(0), [t |-> "ndarray", v |-> "ref"]} :
          \E order \in KeyOrders(options) :
              Moco(py, order, options, run_ok, ndim, ref)
SpecFlirt == InitFlirt /\ [][NextFlirt]_vars

\* -------------------------------------------------------------- properties
NSteps == Len(expected_steps)
FracLess(a, b) == a.num * b.den < b.num * a.den
IsPrefix(pat, line) == \E n \in 0..Len(line) : SubSeq(line, 1, n) = pat
MatchesMarker(marker, line) == marker # None /\ IsPrefix(TheStr(marker), line)

\* C1: within one run with N expected steps the k-th value timeout() emits
\* is k/(N+1); the values emitted are strictly increasing, each lies strictly
\* between 0 and 1, and 1 is never emitted.
C1_ProgressIsKOverNPlus1 ==
    /\ \A k \in 1..Len(emitted) :
          /\ emitted[k].den > 0
          /\ emitted[k].num * (NSteps + 1) = k * emitted[k].den
          /\ 0 < emitted[k].num
          /\ emitted[k].num < emitted[k].den
    /\ \A k \in 1..(Len(emitted) - 1) : FracLess(emitted[k], emitted[k + 1])

\* every expected step was reached, between lines that emitted nothing
C1_Witness ==
    /\ Len(emitted) >= 2
    /\ Len(emitted) = NSteps
    /\ \E i \in 1..Len(consumed) : ~consumed[i].emit

\* C2: timeout() matches lines against the markers in list order: a line
\* emits progress exactly when it matches the marker at _current_step, a line
\* advances at most one step, a line that matches only a later marker or no
\* marker emits nothing, and every queued line is consumed in FIFO order.
C2_MatchesInListOrder ==
    /\ \A i \in 1..Len(consumed) :
          LET c == consumed[i]
          IN /\ c.emit <=> (c.step < NSteps
                            /\ MatchesMarker(expected_steps[c.step + 1], c.line))
             /\ c.step = IF i = 1 THEN 0
                         ELSE consumed[i - 1].step
                                + (IF consumed[i - 1].emit THEN 1 ELSE 0)
    /\ Len(emitted) = Cardinality({i \in 1..Len(consumed) : consumed[i].emit})
    /\ current_step = Len(emitted)
    /\ [i \in 1..Len(consumed) |-> consumed[i].line] \o queue = put_log

\* a line that matches a later marker only was consumed without a signal,
\* and a line that matched the current marker was consumed after it
C2_Witness ==
    \E i \in 1..Len(consumed), j \in 1..Len(consumed) :
        /\ i < j
        /\ ~consumed[i].emit
        /\ \E m \in (consumed[i].step + 2)..NSteps :
              MatchesMarker(expected_steps[m], consumed[i].line)
        /\ consumed[j].emit

\* C3: when finished() is called with status SUCCEEDED, a result is added as
\* data under _output_data[key] iff key is in _output_data, as an ROI under
\* _output_rois[key] iff key is in _output_rois, a result in neither mapping
\* is never added, and the current data/ROI is set to _current_data /
\* _current_roi when those are named.
C3_FinishedAddsMappedResults ==
    (phase = "done" /\ status = SUCCEEDED) =>
        LET cmd_result == worker_output[1]
        IN /\ \A key \in DOMAIN cmd_result :
                 /\ key \in DOMAIN output_data <=>
                       \E c \in ivm.data : c.qpdata = cmd_result[key]
                 /\ key \in DOMAIN output_data =>
                       [name |-> output_data[key], qpdata |-> cmd_result[key]] \in ivm.data
                 /\ key \in DOMAIN output_rois <=>
                       \E c \in ivm.rois : c.qpdata = cmd_result[key]
                 /\ key \in DOMAIN output_rois =>
                       [name |-> output_rois[key], qpdata |-> cmd_result[key]] \in ivm.rois
           /\ \A c \in ivm.data : \E key \in DOMAIN cmd_result :
                 key \in DOMAIN output_data /\ c.name = output_data[key]
                     /\ c.qpdata = cmd_result[key]
           /\ \A c \in ivm.rois : \E key \in DOMAIN cmd_result :
                 key \in DOMAIN output_rois /\ c.name = output_rois[key]
                     /\ c.qpdata = cmd_result[key]
           /\ ivm.current_data = IF Truthy(current_data) THEN current_data ELSE None
           /\ ivm.current_roi = IF Truthy(current_roi) THEN current_roi ELSE None

\* a successful run whose result has a key in both mappings, a key in one
\* and a key in neither, with a current data named
C3_Witness ==
    /\ phase = "done" /\ status = SUCCEEDED
    /\ \E k1, k2, k3 \in DOMAIN worker_output[1] :
          /\ k1 \in DOMAIN output_data /\ k1 \in DOMAIN output_rois
          /\ k2 \in DOMAIN output_data /\ k2 \notin DOMAIN output_rois
          /\ k3 \notin (DOMAIN output_data) \cup (DOMAIN output_rois)
    /\ Truthy(current_data)
    /\ ivm.current_data = current_data

\* C4: when finished() is called with a status other than SUCCEEDED the IVM
\* is left unchanged: nothing is added and no current data or ROI is set.
C4_FailedLeavesIvmUnchanged ==
    (phase = "done" /\ status # SUCCEEDED) => ivm = NoCalls

\* a failed run of a process that had expected output and a current data
C4_Witness ==
    /\ phase = "done" /\ status = "FAILED"
    /\ DOMAIN output_data # {}
    /\ Truthy(current_data)

\* the attributes of a process object on which run() was never called
FreshAttrs ==
    [output_data |-> EmptyDict, output_rois |-> EmptyDict,
     expected_steps |-> << >>, current_step |-> 0,
     current_data |-> {}, current_roi |-> {}]

\* C5: after each run() the output mappings, the expected steps and the
\* current data/ROI names are exactly those the call's init_cmd produces
\* (nothing an earlier run registered survives), and _current_step is 0 when
\* the worker is started.
C5_RunResetsExpectedOutput ==
    (phase # "idle") =>
        LET fresh == InitCmd(cls, FreshAttrs, run_options).st
        IN /\ output_data = fresh.output_data
           /\ output_rois = fresh.output_rois
           /\ expected_steps = fresh.expected_steps
           /\ current_data = fresh.current_data
           /\ current_roi = fresh.current_roi
           /\ (phase = "running" /\ consumed = << >>) => current_step = 0

\* a worker just started by a run() call that found keys registered which
\* this call does not register, and a step counter that had advanced
C5_Witness ==
    /\ phase = "running" /\ consumed = << >>
    /\ run_cleared.output /\ run_cleared.step
    /\ current_step = 0

\* C10: FastProcess.init_cmd sets the expected steps to exactly iter + fixed
\* entries, each the marker 'Tanaka Iteration', so a FAST run never emits
\* more than iter + fixed progress signals.
C10_FastStepsAreIterPlusFixed ==
    (phase # "idle") =>
        /\ Len(expected_steps) = run_options["iter"] + run_options["fixed"]
        /\ \A i \in 1..Len(expected_steps) : expected_steps[i] = Some(TANAKA)
        /\ Len(emitted) <= run_options["iter"] + run_options["fixed"]

\* a FAST run that output more iteration lines than it had expected steps
C10_Witness ==
    /\ phase # "idle"
    /\ run_options["iter"] >= 1 /\ run_options["fixed"] >= 1
    /\ Len(emitted) = run_options["iter"] + run_options["fixed"]
    /\ Cardinality({i \in 1..Len(consumed) : IsPrefix(TANAKA, consumed[i].line)})
          > Len(emitted)

\* C6: for any sequence of write(text) calls the items put on the queue are,
\* in order and one per line, exactly the lines of the output formed by
\* concatenating the written texts; flush() puts nothing on the queue.
C6_QueueIsLinesOfOutput ==
    fop_queue = SplitLines(fop_written)

\* C7: _run_fsl replaces every QpData argument by an fsl Image, every
\* argument equal to _LOAD by fsl.LOAD, passes every other argument unchanged
\* under the same key, and returns exactly the result keys whose value is an
\* Image, each converted to a QpData named after its key.
C7_RunFslConvertsArgsAndResults ==
    (rf.pc = "returned" /\ rf.called) =>
        /\ DOMAIN rf.passed = DOMAIN rf.cmd_args
        /\ \A key \in DOMAIN rf.cmd_args :
              LET val == rf.cmd_args[key]
              IN /\ val.t = "QpData" => rf.passed[key] = [t |-> "Image", v |-> val.v]
                 /\ (val.t = "str" /\ val.v = LOAD) => rf.passed[key] = FSL_LOAD
                 /\ (val.t # "QpData" /\ ~(val.t = "str" /\ val.v = LOAD)) =>
                       rf.passed[key] = val
        /\ rf.outcome.value[2] =>
              LET ret == rf.outcome.value[3]
                  cmd_result == rf.cmd_outcome.result
              IN /\ DOMAIN ret = {k \in DOMAIN cmd_result : cmd_result[k].t = "Image"}
                 /\ \A k \in DOMAIN ret : ret[k] = [t |-> "QpData", v |-> k]

\* a successful call given a QpData, the _LOAD string and another value,
\* whose wrapper returned an Image and something that is no Image
C7_Witness ==
    /\ rf.pc = "returned" /\ rf.called /\ rf.outcome.value[2]
    /\ \E k1, k2, k3 \in DOMAIN rf.cmd_args :
          /\ rf.cmd_args[k1].t = "QpData"
          /\ rf.cmd_args[k2] = Str(LOAD)
          /\ rf.cmd_args[k3] = Str("0.5")
    /\ \E r1, r2 \in DOMAIN rf.cmd_outcome.result :
          /\ rf.cmd_outcome.result[r1].t = "Image"
          /\ rf.cmd_outcome.result[r2].t # "Image"
    /\ DOMAIN rf.outcome.value[3] # {}

\* C8: _run_fsl returns (worker_id, True, result dict) or (worker_id, False,
\* exception) with the worker_id it was given; no Exception of the wrapper
\* lookup, the argument conversion or the command propagates to the caller.
C8_RunFslReportsFailureAsValue ==
    (rf.pc = "returned") =>
        /\ rf.outcome.kind = "return"
        /\ rf.outcome.value[1] = rf.worker_id
        /\ rf.outcome.value[2] <=>
              (/\ rf.cmd \in Wrappers
               /\ \A key \in DOMAIN rf.cmd_args : rf.cmd_args[key] # QpData(UNREADABLE)
               /\ rf.cmd_outcome.raises = "")
        /\ ~rf.outcome.value[2] =>
              rf.outcome.value[3] \in {"AttributeError", "IOError", "RuntimeError"}

\* a call for a name that is no wrapper, by a worker other than worker 0
C8_Witness ==
    /\ rf.pc = "returned"
    /\ rf.cmd \notin Wrappers
    /\ rf.worker_id > 0
    /\ rf.outcome.kind = "return"
    /\ rf.outcome.value = <<rf.worker_id, FALSE, "AttributeError">>

\* the places of the command line where the flag of key starts
FlagStarts(cmdline, key) ==
    {i \in 1..(Len(cmdline) - 1) : cmdline[i] = "-" /\ cmdline[i + 1] = key}
\* the command line holds, from place i on, the pieces of seq
HoldsAt(cmdline, i, seq) ==
    /\ i + Len(seq) - 1 <= Len(cmdline)
    /\ SubSeq(cmdline, i, i + Len(seq) - 1) = seq

\* C9: in reg_3d and moco every key of the caller's options appears in the
\* command line exactly once, as '-key value ' when its value is truthy and
\* as '-key ' otherwise, all option flags precede the fixed input/output
\* arguments, and the caller's options dictionary is empty afterwards.
C9_CmdlineHoldsEveryOption ==
    (fl.pc = "done" /\ ~(fl.fn = "moco" /\ fl.ndim # 4)) =>
        /\ fl.built
        /\ fl.options_after = EmptyDict
        /\ \E t \in 1..Len(fl.cmdline) :
              /\ fl.cmdline[t] = fl.tail
              /\ \A key \in DOMAIN fl.options :
                    /\ Cardinality(FlagStarts(fl.cmdline, key)) = 1
                    /\ \A i \in FlagStarts(fl.cmdline, key) :
                          /\ i < t
                          /\ LET value == fl.options[key]
                                 flag == IF PyTruthy(value)
                                         THEN <<"-", key, " ", PyFormat(value), " ">>
                                         ELSE <<"-", key, " ">>
                             IN /\ HoldsAt(fl.cmdline, i, flag)
                                /\ fl.cmdline[i + Len(flag)] \in {"-", fl.tail}

\* the same statement for the calls made under Python 2
C9_HoldsUnderPython2 ==
    (fl.pc = "done" /\ fl.py = 2) => C9_CmdlineHoldsEveryOption

====
